---- MODULE Spec2Model ----
(***************************************************************************)
(* A model of blm-parser (src/blm-parser/parser.js): the module-level      *)
(* callback slot and error emitter, the five promise-returning stages and  *)
(* the parseBlmFile coordinator.                                           *)
(*                                                                         *)
(* A JavaScript string is a sequence of one-character strings, so that     *)
(* split, trim, replace and the section regular expressions are computed   *)
(* character by character.  A promise is the sequence of resolve / reject  *)
(* / throw signals its executor produces, the first of which settles it.   *)
(***************************************************************************)
EXTENDS Integers, Sequences, FiniteSets, TLC

VARIABLES
    doneCallback,    \* parser.js:10, the module-level callback slot
    pc,              \* per call: where the coordinator's async executor is suspended
    fileHandle,      \* per call: the first argument of parseBlmFile
    finishCallback,  \* per call: the second argument of parseBlmFile
    parsePromise,    \* per call: state of parsePromise (parser.js:212)
    parseReaction,   \* per call: a then-reaction of parsePromise is queued and has not run
    awaited,         \* per call: the stage promise the executor is suspended on
    catchPending,    \* per call: the awaited promise's catch handler is queued and has not run
    fileStr,         \* per call: local fileStr   (parser.js:218)
    header,          \* per call: local header    (parser.js:219)
    definitions,     \* per call: local definitions (parser.js:220)
    data,            \* per call: local data      (parser.js:221)
    trace,           \* per call: the steps performed so far, in order
    delivered        \* per callback: the invocations it received, in order

vars == <<doneCallback, pc, fileHandle, finishCallback, parsePromise, parseReaction,
          awaited, catchPending, fileStr, header, definitions, data, trace, delivered>>

-----------------------------------------------------------------------------
(* JavaScript values that are not strings *)

Undefined == <<"UNDEFINED">>
Null == <<"NULL">>
NumberValue == <<"NUMBER">>
NotAFunction == <<"NOT-A-FUNCTION">>

NonStrings == {Undefined, Null, NumberValue}

IsString(v) == v \notin NonStrings

-----------------------------------------------------------------------------
(* String.prototype operations used by the parser *)

Whitespace == {" ", "\n", "\t", "\r"}

Quotes == {"'", "\""}

LowerCase == <<"a", "b", "c", "d", "e", "f", "g", "h", "i", "j", "k", "l", "m",
               "n", "o", "p", "q", "r", "s", "t", "u", "v", "w", "x", "y", "z">>

UpperCase == <<"A", "B", "C", "D", "E", "F", "G", "H", "I", "J", "K", "L", "M",
               "N", "O", "P", "Q", "R", "S", "T", "U", "V", "W", "X", "Y", "Z">>

ToUpperChar(ch) ==
    IF \E i \in DOMAIN LowerCase : LowerCase[i] = ch
    THEN UpperCase[CHOOSE i \in DOMAIN LowerCase : LowerCase[i] = ch]
    ELSE ch

ToUpperCase(s) == [i \in 1..Len(s) |-> ToUpperChar(s[i])]

MatchesAt(s, i, m) ==
    /\ i >= 1
    /\ i + Len(m) - 1 <= Len(s)
    /\ \A k \in 1..Len(m) : s[i + k - 1] = m[k]

Minimum(S) == CHOOSE x \in S : \A y \in S : x <= y

Maximum(S) == CHOOSE x \in S : \A y \in S : x >= y

\* first position >= from at which m occurs in s, 0 when there is none
IndexOf(s, m, from) ==
    LET hits == {i \in from..(Len(s) - Len(m) + 1) : MatchesAt(s, i, m)}
    IN  IF hits = {} THEN 0 ELSE Minimum(hits)

\* last position >= from at which m occurs in s, 0 when there is none
LastIndexOf(s, m, from) ==
    LET hits == {i \in from..(Len(s) - Len(m) + 1) : MatchesAt(s, i, m)}
    IN  IF hits = {} THEN 0 ELSE Maximum(hits)

RECURSIVE SplitOn(_, _)
SplitOn(s, sep) ==
    LET i == IndexOf(s, sep, 1)
    IN  IF i = 0 THEN <<s>>
        ELSE <<SubSeq(s, 1, i - 1)>> \o SplitOn(SubSeq(s, i + Len(sep), Len(s)), sep)

\* String.prototype.split(separator): an undefined separator gives the whole
\* string as the only element, an empty separator gives the characters
Split(s, sep) ==
    IF sep = Undefined THEN <<s>>
    ELSE IF sep = <<>> THEN [i \in 1..Len(s) |-> <<s[i]>>]
    ELSE SplitOn(s, sep)

Trim(s) ==
    LET keep == {i \in 1..Len(s) : s[i] \notin Whitespace}
    IN  IF keep = {} THEN <<>> ELSE SubSeq(s, Minimum(keep), Maximum(keep))

\* replace(/(^[\'\"]|[\'\"]$)/g, ''): one leading and one trailing quote
StripQuotes(s) ==
    LET a == IF Len(s) > 0 /\ s[1] \in Quotes THEN SubSeq(s, 2, Len(s)) ELSE s
    IN  IF Len(a) > 0 /\ a[Len(a)] \in Quotes THEN SubSeq(a, 1, Len(a) - 1) ELSE a

RECURSIVE Concat(_)
Concat(ss) == IF ss = <<>> THEN <<>> ELSE ss[1] \o Concat(Tail(ss))

\* Array.prototype.slice(0, -1)
DropLast(xs) == IF Len(xs) = 0 THEN <<>> ELSE SubSeq(xs, 1, Len(xs) - 1)

-----------------------------------------------------------------------------
(* Promises: the executor's signals in program order; the first settles *)

Resolve(v) == [kind |-> "resolve", value |-> v, cause |-> "none"]

Reject(c) == [kind |-> "reject", value |-> Undefined, cause |-> c]

\* an exception thrown inside an executor rejects the promise
Throw(c) == [kind |-> "reject", value |-> Undefined, cause |-> c]

Pending == [state |-> "pending", value |-> Undefined, cause |-> "none"]

SettleLast(signals) ==
    LET s == signals[Len(signals)]
    IN  [state |-> IF s.kind = "resolve" THEN "resolved" ELSE "rejected",
         value |-> s.value, cause |-> s.cause]

Settle(signals) ==
    LET s == signals[1]
    IN  [state |-> IF s.kind = "resolve" THEN "resolved" ELSE "rejected",
         value |-> s.value, cause |-> s.cause]

-----------------------------------------------------------------------------
(* validateFileHandle, parser.js:35-58 *)

Dot == <<".">>

BLM == <<"B", "L", "M">>

ValidateSignals(fh) ==
    LET guard == IF fh = Undefined \/ ~IsString(fh) \/ Len(fh) = 0
                 THEN <<Resolve(FALSE)>> ELSE <<>>
    IN  IF ~IsString(fh)
        THEN guard \o <<Throw("TypeError: fileHandle.split is not a function")>>
        ELSE LET splitOnFileExtension == Split(fh, Dot)
                 n == Len(splitOnFileExtension)
             IN  guard \o
                 <<Resolve(/\ n >= 2
                           /\ Len(Concat(DropLast(splitOnFileExtension))) > 0
                           /\ ToUpperCase(splitOnFileExtension[n]) = BLM)>>

validateFileHandle(fh) == Settle(ValidateSignals(fh))

-----------------------------------------------------------------------------
(* JavaScript objects and arrays held in the coordinator's locals *)

JsUndefined == [type |-> "undefined"]

Object(props) == [type |-> "object", props |-> props]

Array(items) == [type |-> "array", items |-> items]

EmptyProps == [k \in {} |-> Undefined]

\* accumulator[property] = value
Put(props, k, v) == [x \in (DOMAIN props) \cup {k} |-> IF x = k THEN v ELSE props[x]]

\* object.property: undefined when the object does not have it
Get(obj, k) == IF k \in DOMAIN obj.props THEN obj.props[k] ELSE Undefined

KeyEOF == <<"E", "O", "F">>

KeyEOR == <<"E", "O", "R">>

UndefinedKey == <<"u", "n", "d", "e", "f", "i", "n", "e", "d">>

-----------------------------------------------------------------------------
(* The section regular expressions; NoMatch is exec's null *)

NoMatch == <<"NO-MATCH">>

HeaderMarker == <<"#", "H", "E", "A", "D", "E", "R", "#">>

DefinitionMarker == <<"#", "D", "E", "F", "I", "N", "I", "T", "I", "O", "N", "#">>

DataMarker == <<"#", "D", "A", "T", "A", "#">>

EndMarker == <<"#", "E", "N", "D", "#">>

Hash == <<"#">>

Colon == <<":">>

Newline == <<"\n">>

\* /<marker>([\s\S]*?)#/ : from the first marker that a '#' follows, lazily to that '#'
LazySection(s, marker) ==
    LET i == IndexOf(s, marker, 1)
        j == IF i = 0 THEN 0 ELSE IndexOf(s, Hash, i + Len(marker))
    IN  IF i = 0 \/ j = 0 THEN NoMatch ELSE SubSeq(s, i + Len(marker), j - 1)

\* /#DATA#([\s\S]*)#END#/ : from the first #DATA#, greedily to the last #END#
GreedySection(s, open, close) ==
    LET i == IndexOf(s, open, 1)
        j == IF i = 0 THEN 0 ELSE LastIndexOf(s, close, i + Len(open))
    IN  IF i = 0 \/ j = 0 THEN NoMatch ELSE SubSeq(s, i + Len(open), j - 1)

HeaderSection(s) == LazySection(s, HeaderMarker)

DefinitionSection(s) == LazySection(s, DefinitionMarker)

DataSection(s) == GreedySection(s, DataMarker, EndMarker)

-----------------------------------------------------------------------------
(* getHeader, parser.js:90-116 *)

\* one non-blank line: split on ':', trim and unquote every part, keep the first two
HeaderPair(line) ==
    LET parts == Split(Trim(line), Colon)
        clean == [i \in 1..Len(parts) |-> StripQuotes(Trim(parts[i]))]
    IN  [property |-> clean[1],
         value |-> IF Len(clean) >= 2 THEN clean[2] ELSE Undefined]

RECURSIVE HeaderData(_, _)
HeaderData(lines, accumulator) ==
    IF lines = <<>> THEN accumulator
    ELSE LET current == lines[1]
             next == IF Trim(current) # <<>>
                     THEN Put(accumulator, HeaderPair(current).property,
                                           HeaderPair(current).value)
                     ELSE accumulator
         IN  HeaderData(Tail(lines), next)

\* as HeaderSignals, with a missing section read as an empty one
HeaderSignalsLenient(str) ==
    LET headerStr == HeaderSection(str)
    IN  IF headerStr = NoMatch
        THEN <<Resolve(Object(EmptyProps))>>
        ELSE <<Resolve(Object(HeaderData(Split(headerStr, Newline), EmptyProps)))>>

HeaderSignals(str) ==
    LET headerStr == HeaderSection(str)
    IN  IF headerStr = NoMatch
        THEN <<Throw("TypeError: cannot read property 1 of null")>>
        ELSE <<Resolve(Object(HeaderData(Split(headerStr, Newline), EmptyProps)))>>

HeaderSteps(str) ==
    IF HeaderSection(str) = NoMatch THEN <<"getHeader", "locate HEADER">>
    ELSE <<"getHeader", "locate HEADER", "split HEADER">>

getHeader(str) == Settle(HeaderSignals(str))

-----------------------------------------------------------------------------
(* getDefinitions, parser.js:125-147 *)

HeaderIncorrect(hdr) ==
    \/ hdr = JsUndefined
    \/ Get(hdr, KeyEOF) = Undefined
    \/ Get(hdr, KeyEOR) = Undefined

\* as DefinitionList, also cutting a record separator that ends the last name
DefinitionListCutting(definitionsStr, hdr) ==
    LET parts == Split(definitionsStr, Get(hdr, KeyEOF))
        trimmed == [i \in 1..Len(parts) |-> Trim(parts[i])]
        last == IF Len(trimmed) > 0 THEN trimmed[Len(trimmed)] ELSE <<>>
        eor == Get(hdr, KeyEOR)
        n == Len(last) - Len(eor)
    IN  IF Len(trimmed) > 0 /\ last = eor
        THEN DropLast(trimmed)
        ELSE IF Len(trimmed) > 0 /\ eor # Undefined /\ n >= 0 /\ MatchesAt(last, n + 1, eor)
        THEN [trimmed EXCEPT ![Len(trimmed)] = SubSeq(last, 1, n)]
        ELSE trimmed

DefinitionList(definitionsStr, hdr) ==
    LET parts == Split(definitionsStr, Get(hdr, KeyEOF))
        trimmed == [i \in 1..Len(parts) |-> Trim(parts[i])]
    IN  IF Len(trimmed) > 0 /\ trimmed[Len(trimmed)] = Get(hdr, KeyEOR)
        THEN DropLast(trimmed) ELSE trimmed

DefinitionsSignals(str, hdr) ==
    LET check == IF HeaderIncorrect(hdr) THEN <<Reject("Header data incorrect")>> ELSE <<>>
        definitionsStr == DefinitionSection(str)
    IN  check \o
        (IF definitionsStr = NoMatch
         THEN <<Throw("TypeError: cannot read property 1 of null")>>
         ELSE IF hdr = JsUndefined
         THEN <<Throw("TypeError: cannot read property EOF of undefined")>>
         ELSE <<Resolve(Array(DefinitionList(definitionsStr, hdr)))>>)

\* the reject at parser.js:128 does not return: the section is located and split after it
DefinitionsSteps(str, hdr) ==
    <<"getDefinitions", "check header">> \o
    (IF DefinitionSection(str) = NoMatch \/ hdr = JsUndefined
     THEN <<"locate DEFINITION">>
     ELSE <<"locate DEFINITION", "split DEFINITION">>)

getDefinitions(str, hdr) == Settle(DefinitionsSignals(str, hdr))

-----------------------------------------------------------------------------
(* getData, parser.js:160-201 *)

\* validData: the trimmed record candidates that are not empty
ValidData(dataStr, hdr) ==
    LET parts == Split(dataStr, Get(hdr, KeyEOR))
        trimmed == [i \in 1..Len(parts) |-> Trim(parts[i])]
    IN  SelectSeq(trimmed, LAMBDA current : Len(current) > 0)

\* elem.split(header.EOF).slice(0, -1)
DataArr(elem, hdr) == DropLast(Split(elem, Get(hdr, KeyEOF)))

RECURSIVE DataObjFrom(_, _, _, _)
DataObjFrom(dataArr, defs, currInd, accumulator) ==
    IF currInd > Len(dataArr) THEN accumulator
    ELSE DataObjFrom(dataArr, defs, currInd + 1,
             Put(accumulator,
                 IF currInd <= Len(defs) THEN defs[currInd] ELSE UndefinedKey,
                 dataArr[currInd]))

\* accumulator[definitions[currInd]] = current, for every value in order
DataObj(dataArr, defs) == DataObjFrom(dataArr, defs, 1, EmptyProps)

DataObjects(validData, hdr, defs) ==
    [i \in 1..Len(validData) |-> DataObj(DataArr(validData[i], hdr), defs)]

\* as MismatchSignals, with the length check made on the first record only
MismatchSignalsFirstOnly(validData, hdr, defs) ==
    IF validData # <<>> /\ Len(DataArr(validData[1], hdr)) # Len(defs)
    THEN <<Reject("Data array has different length than field array")>>
    ELSE <<>>

\* one reject per record whose value count differs, in record order
RECURSIVE MismatchSignals(_, _, _)
MismatchSignals(validData, hdr, defs) ==
    IF validData = <<>> THEN <<>>
    ELSE (IF Len(DataArr(validData[1], hdr)) # Len(defs)
          THEN <<Reject("Data array has different length than field array")>>
          ELSE <<>>)
         \o MismatchSignals(Tail(validData), hdr, defs)

DataSignals(str, hdr, defs) ==
    LET check == IF HeaderIncorrect(hdr)
                 THEN <<Reject("Header data undefined or incorrect")>>
                 ELSE IF defs = JsUndefined
                 THEN <<Reject("Definition data undefined")>>
                 ELSE <<>>
        dataStr == DataSection(str)
    IN  check \o
        (IF dataStr = NoMatch
         THEN <<Throw("TypeError: cannot read property 1 of null")>>
         ELSE IF hdr = JsUndefined
         THEN <<Throw("TypeError: cannot read property EOR of undefined")>>
         ELSE IF defs = JsUndefined
         THEN (IF ValidData(dataStr, hdr) = <<>> THEN <<Resolve(Array(<<>>))>>
               ELSE <<Throw("TypeError: cannot read property length of undefined")>>)
         ELSE MismatchSignals(ValidData(dataStr, hdr), hdr, defs.items)
              \o <<Resolve(Array(DataObjects(ValidData(dataStr, hdr), hdr, defs.items)))>>)

DataSteps(str, hdr, defs) ==
    <<"getData", "check header and definitions">> \o
    (IF DataSection(str) = NoMatch \/ hdr = JsUndefined
     THEN <<"locate DATA">>
     ELSE <<"locate DATA", "split DATA">>)

getData(str, hdr, defs) == Settle(DataSignals(str, hdr, defs))

-----------------------------------------------------------------------------
(* errEmitter and its one listener, parser.js:18-27 *)

NoCallback == "none"

ErrorCall(from, stage, cause) ==
    [kind |-> "error", from |-> from, stage |-> stage, cause |-> cause, data |-> JsUndefined]

ResultCall(from, value) ==
    [kind |-> "result", from |-> from, stage |-> "none", cause |-> "none", data |-> value]

\* errEmitter.emit(event, errorObj): the listener is registered for "error" only;
\* it calls whatever callback the module-level slot holds at that moment
Emit(event, from, stage, cause, slot, log) ==
    IF event # "error" THEN log
    ELSE IF slot # NoCallback
    THEN [log EXCEPT ![slot] = Append(@, ErrorCall(from, stage, cause))]
    ELSE log

-----------------------------------------------------------------------------
(* Inputs: paths and file texts *)

PathValid == <<"a", ".", "b", "l", "m">>

PathTxt == <<"a", ".", "t", "x", "t">>

Paths == {PathValid, PathTxt, Undefined}

HdrBoth == <<"#", "H", "E", "A", "D", "E", "R", "#", "\n", "E", "O", "F", " ", ":", " ", "'", "|", "'", "\n", "E", "O", "R", " ", ":", " ", "'", ";", "'", "\n">>

HdrNoEOF == <<"#", "H", "E", "A", "D", "E", "R", "#", "\n", "E", "O", "R", " ", ":", " ", "'", ";", "'", "\n">>

HdrNoEOR == <<"#", "H", "E", "A", "D", "E", "R", "#", "\n", "E", "O", "F", " ", ":", " ", "'", "|", "'", "\n">>

HdrNoColon == <<"#", "H", "E", "A", "D", "E", "R", "#", "\n", "V", "e", "r", "s", "i", "o", "n", "\n", "E", "O", "F", " ", ":", " ", "'", "|", "'", "\n", "E", "O", "R", " ", ":", " ", "'", ";", "'", "\n">>

\* a header whose third value contains a ':'
HdrColonValue == <<"#", "H", "E", "A", "D", "E", "R", "#", "\n", "E", "O", "F", " ", ":", " ", "'", "|", "'", "\n", "E", "O", "R", " ", ":", " ", "'", ";", "'", "\n", "T", "i", "m", "e", " ", ":", " ", "1", "2", ":", "3", "0", "\n">>

DefOne == <<"#", "D", "E", "F", "I", "N", "I", "T", "I", "O", "N", "#", "\n", "a", "|", ";", "\n">>

DefTwo == <<"#", "D", "E", "F", "I", "N", "I", "T", "I", "O", "N", "#", "\n", "a", "|", "b", "|", ";", "\n">>

DefRepeated == <<"#", "D", "E", "F", "I", "N", "I", "T", "I", "O", "N", "#", "\n", "a", "|", "a", "|", ";", "\n">>

DefEmptyName == <<"#", "D", "E", "F", "I", "N", "I", "T", "I", "O", "N", "#", "\n", "a", "|", "|", ";", "\n">>

DefNoTrailing == <<"#", "D", "E", "F", "I", "N", "I", "T", "I", "O", "N", "#", "\n", "a", "|", "b", ";", "\n">>

DataOpen == <<"#", "D", "A", "T", "A", "#", "\n">>

DataClose == <<"#", "E", "N", "D", "#">>

RecOk == <<"1", "|", "2", "|", ";", "\n">>

RecShort == <<"5", "|", ";", "\n">>

RecLong == <<"6", "|", "7", "|", "8", "|", ";", "\n">>

RecBlank == <<" ", ";", "\n">>

RecNoTrailing == <<"9", "|", "0", ";", "\n">>

\* the scenario of the specification's section 8
ExampleText == <<"#", "H", "E", "A", "D", "E", "R", "#", "\n", "E", "O", "F", " ", ":", " ", "'", "|", "'", "\n", "E", "O", "R", " ", ":", " ", "'", ";", "'", "\n", "#", "D", "E", "F", "I", "N", "I", "T", "I", "O", "N", "#", "\n", "n", "a", "m", "e", "|", "a", "d", "d", "r", "e", "s", "s", "|", "p", "r", "i", "c", "e", ";", "\n", "#", "D", "A", "T", "A", "#", "\n", "A", "l", "i", "c", "e", "|", "1", "2", "3", " ", "R", "d", "|", "1", "0", "0", "0", "0", "0", "|", ";", "\n", "#", "E", "N", "D", "#">>

MaxRecords == 2

HeaderParts == {<<>>, HdrBoth, HdrNoEOF, HdrNoEOR, HdrNoColon, HdrColonValue}

DefinitionParts == {<<>>, DefOne, DefTwo, DefRepeated, DefEmptyName, DefNoTrailing}

RecordCandidates == {RecOk, RecShort, RecLong, RecBlank, RecNoTrailing}

RECURSIVE SeqsUpTo(_, _)
SeqsUpTo(S, n) ==
    IF n = 0 THEN {<<>>}
    ELSE SeqsUpTo(S, n - 1) \cup
         {Append(q, x) : q \in {r \in SeqsUpTo(S, n - 1) : Len(r) = n - 1}, x \in S}

\* a DATA section with up to MaxRecords record candidates, no DATA section at
\* all, or one that is never closed by #END#
DataParts ==
    {<<>>, DataOpen \o RecOk} \cup
    {DataOpen \o Concat(rs) \o DataClose : rs \in SeqsUpTo(RecordCandidates, MaxRecords)}

AllTexts ==
    {ExampleText} \cup
    {h \o d \o r : h \in HeaderParts, d \in DefinitionParts, r \in DataParts}

\* the texts two concurrent calls read: well formed, one record short, no EOF
\* in the header, no HEADER
FewTexts ==
    {HdrBoth \o DefTwo \o DataOpen \o RecOk \o DataClose,
     HdrBoth \o DefTwo \o DataOpen \o RecShort \o DataClose,
     HdrNoEOF \o DefTwo \o DataOpen \o RecOk \o DataClose,
     DefTwo \o DataOpen \o RecOk \o DataClose}

\* the calls a run may hold; Calls are the two that run concurrently
CallIds == {"A", "B", "C"}

Calls == {"A", "B"}

OneCall == {"A"}

-----------------------------------------------------------------------------
(* Scheduling: promise reactions run to completion before the next I/O event *)

AwaitingStage == {"awaitRead", "awaitHeader", "awaitDefinitions", "awaitData"}

\* call d has a reaction queued that runs without any caller code in between
MidChain(d) ==
    \/ catchPending[d]
    \/ parseReaction[d]
    \/ pc[d] \in AwaitingStage /\ awaited[d].state = "resolved"

MicrotaskPending(d) ==
    \/ MidChain(d)
    \/ pc[d] = "awaitValidate"
    \/ pc[d] \in AwaitingStage /\ awaited[d].state = "rejected"

\* the call has nothing left to run
Finished(c) == pc[c] \in {"threw", "aborted", "returned"} /\ ~MicrotaskPending(c)

-----------------------------------------------------------------------------
(* parseBlmFile, parser.js:204-237 *)

Init ==
    /\ doneCallback = NoCallback
    /\ pc = [c \in CallIds |-> "idle"]
    /\ fileHandle = [c \in CallIds |-> Undefined]
    /\ finishCallback = [c \in CallIds |-> NoCallback]
    /\ parsePromise = [c \in CallIds |-> "none"]
    /\ parseReaction = [c \in CallIds |-> FALSE]
    /\ awaited = [c \in CallIds |-> Pending]
    /\ catchPending = [c \in CallIds |-> FALSE]
    /\ fileStr = [c \in CallIds |-> Undefined]
    /\ header = [c \in CallIds |-> JsUndefined]
    /\ definitions = [c \in CallIds |-> JsUndefined]
    /\ data = [c \in CallIds |-> JsUndefined]
    /\ trace = [c \in CallIds |-> <<>>]
    /\ delivered = [c \in CallIds |-> <<>>]

\* the executor suspends on a stage promise; a rejected one has its catch
\* handler queued ahead of the executor's continuation
Await(c, at, promise, steps) ==
    /\ pc' = [pc EXCEPT ![c] = at]
    /\ awaited' = [awaited EXCEPT ![c] = promise]
    /\ catchPending' = [catchPending EXCEPT ![c] = (promise.state = "rejected")]
    /\ trace' = [trace EXCEPT ![c] = @ \o steps]

\* parser.js:204-213: the call with a function as callback, up to the first await.
\* Call c passes its own callback, named c.
Start(c, fh) ==
    /\ pc[c] = "idle"
    /\ \A d \in CallIds : ~MidChain(d)
    /\ doneCallback' = c
    /\ finishCallback' = [finishCallback EXCEPT ![c] = c]
    /\ fileHandle' = [fileHandle EXCEPT ![c] = fh]
    /\ parsePromise' = [parsePromise EXCEPT ![c] = "pending"]
    /\ Await(c, "awaitValidate", validateFileHandle(fh), <<"validateFileHandle">>)
    /\ UNCHANGED <<parseReaction, fileStr, header, definitions, data, delivered>>

\* as StartWithoutCallback, had the argument been stored in doneCallback before the test
StartWithoutCallbackStoring(c, fh) ==
    /\ pc[c] = "idle"
    /\ \A d \in CallIds : ~MidChain(d)
    /\ doneCallback' = NoCallback
    /\ finishCallback' = [finishCallback EXCEPT ![c] = NotAFunction[1]]
    /\ fileHandle' = [fileHandle EXCEPT ![c] = fh]
    /\ pc' = [pc EXCEPT ![c] = "threw"]
    /\ UNCHANGED <<parsePromise, parseReaction, awaited, catchPending,
                   fileStr, header, definitions, data, trace, delivered>>

\* parser.js:206-210: without a function as callback the else branch calls
\* reject, which is not in scope there: a ReferenceError ends the call
StartWithoutCallback(c, fh) ==
    /\ pc[c] = "idle"
    /\ \A d \in CallIds : ~MidChain(d)
    /\ finishCallback' = [finishCallback EXCEPT ![c] = NotAFunction[1]]
    /\ fileHandle' = [fileHandle EXCEPT ![c] = fh]
    /\ pc' = [pc EXCEPT ![c] = "threw"]
    /\ UNCHANGED <<doneCallback, parsePromise, parseReaction, awaited, catchPending,
                   fileStr, header, definitions, data, trace, delivered>>

\* fs.createReadStream throws at once for a path that is not a string
streamInData(fh) ==
    IF IsString(fh) THEN Pending
    ELSE Settle(<<Throw("TypeError: the path argument must be a string")>>)

\* parser.js:213-218: after the validation await; reject does not return, so
\* streamInData is called whatever the validation answered
ResumeValidate(c) ==
    /\ pc[c] = "awaitValidate"
    /\ awaited[c].state = "resolved"
    /\ parsePromise' = [parsePromise EXCEPT ![c] = IF awaited[c].value THEN @ ELSE "rejected"]
    /\ parseReaction' = [parseReaction EXCEPT ![c] = ~awaited[c].value]
    /\ Await(c, "awaitRead", streamInData(fileHandle[c]), <<"streamInData">>)
    /\ UNCHANGED <<doneCallback, fileHandle, finishCallback, fileStr, header,
                   definitions, data, delivered>>

\* parser.js:73: the stream ends and the read text resolves the stream promise
StreamEnd(c, text) ==
    /\ pc[c] = "awaitRead"
    /\ awaited[c].state = "pending"
    /\ fileHandle[c] # <<>>
    /\ \A d \in CallIds : ~MicrotaskPending(d)
    /\ awaited' = [awaited EXCEPT ![c] = Settle(<<Resolve(text)>>)]
    /\ UNCHANGED <<doneCallback, pc, fileHandle, finishCallback, parsePromise,
                   parseReaction, catchPending, fileStr, header, definitions, data,
                   trace, delivered>>

\* parser.js:71: the stream fails and rejects the stream promise
StreamError(c) ==
    /\ pc[c] = "awaitRead"
    /\ awaited[c].state = "pending"
    /\ \A d \in CallIds : ~MicrotaskPending(d)
    /\ awaited' = [awaited EXCEPT ![c] = Settle(<<Reject("")>>)]
    /\ catchPending' = [catchPending EXCEPT ![c] = TRUE]
    /\ UNCHANGED <<doneCallback, pc, fileHandle, finishCallback, parsePromise,
                   parseReaction, fileStr, header, definitions, data, trace, delivered>>

\* the catch handler of a rejected stage promise: emit "error" with the stage's message
StageCatch(c, at, stage) ==
    /\ pc[c] = at
    /\ awaited[c].state = "rejected"
    /\ catchPending[c]
    /\ delivered' = Emit("error", c, stage, awaited[c].cause, doneCallback, delivered)
    /\ catchPending' = [catchPending EXCEPT ![c] = FALSE]
    /\ UNCHANGED <<doneCallback, pc, fileHandle, finishCallback, parsePromise,
                   parseReaction, awaited, fileStr, header, definitions, data, trace>>

\* as StreamCatch, with the message of the header stage's handler
StreamCatchAsHeader(c) == StageCatch(c, "awaitRead", "parse header section")

\* parser.js:75-80
StreamCatch(c) == StageCatch(c, "awaitRead", "read file stream")

\* parser.js:109-114
HeaderCatch(c) == StageCatch(c, "awaitHeader", "parse header section")

\* parser.js:140-145
DefinitionsCatch(c) == StageCatch(c, "awaitDefinitions", "parse definition section")

\* parser.js:194-199
DataCatch(c) == StageCatch(c, "awaitData", "parse data section")

\* as ExecutorThrows, had the stages returned the promise that catch derives:
\* the handled rejection resumes the executor with undefined
ExecutorContinues(c) ==
    /\ pc[c] \in AwaitingStage
    /\ awaited[c].state = "rejected"
    /\ ~catchPending[c]
    /\ awaited' = [awaited EXCEPT ![c] =
                      Settle(<<Resolve(IF pc[c] = "awaitRead" THEN Undefined ELSE JsUndefined)>>)]
    /\ UNCHANGED <<doneCallback, pc, fileHandle, finishCallback, parsePromise, parseReaction,
                   catchPending, fileStr, header, definitions, data, trace, delivered>>

\* awaiting a rejected stage promise throws inside the executor, whose own
\* promise nobody holds: the rest of the executor never runs
ExecutorThrows(c) ==
    /\ pc[c] \in AwaitingStage
    /\ awaited[c].state = "rejected"
    /\ ~catchPending[c]
    /\ pc' = [pc EXCEPT ![c] = "aborted"]
    /\ UNCHANGED <<doneCallback, fileHandle, finishCallback, parsePromise, parseReaction,
                   awaited, catchPending, fileStr, header, definitions, data, trace,
                   delivered>>

\* parser.js:218-219
ResumeRead(c) ==
    /\ pc[c] = "awaitRead"
    /\ awaited[c].state = "resolved"
    /\ fileStr' = [fileStr EXCEPT ![c] = awaited[c].value]
    /\ Await(c, "awaitHeader", getHeader(awaited[c].value), HeaderSteps(awaited[c].value))
    /\ UNCHANGED <<doneCallback, fileHandle, finishCallback, parsePromise, parseReaction,
                   header, definitions, data, delivered>>

\* parser.js:219-220
ResumeHeader(c) ==
    /\ pc[c] = "awaitHeader"
    /\ awaited[c].state = "resolved"
    /\ header' = [header EXCEPT ![c] = awaited[c].value]
    /\ Await(c, "awaitDefinitions", getDefinitions(fileStr[c], awaited[c].value),
             DefinitionsSteps(fileStr[c], awaited[c].value))
    /\ UNCHANGED <<doneCallback, fileHandle, finishCallback, parsePromise, parseReaction,
                   fileStr, definitions, data, delivered>>

\* parser.js:220-221
ResumeDefinitions(c) ==
    /\ pc[c] = "awaitDefinitions"
    /\ awaited[c].state = "resolved"
    /\ definitions' = [definitions EXCEPT ![c] = awaited[c].value]
    /\ Await(c, "awaitData", getData(fileStr[c], header[c], awaited[c].value),
             DataSteps(fileStr[c], header[c], awaited[c].value))
    /\ UNCHANGED <<doneCallback, fileHandle, finishCallback, parsePromise, parseReaction,
                   fileStr, header, data, delivered>>

\* the records the calls before c have produced, in call order
RECURSIVE RecordsSoFar(_)
RecordsSoFar(ids) ==
    IF ids = <<>> THEN <<>>
    ELSE (IF data[ids[1]] = JsUndefined THEN <<>> ELSE data[ids[1]].items)
         \o RecordsSoFar(Tail(ids))

\* as ResumeData, had dataObjects been a module-level array that every parse appends to
ResumeDataAccumulating(c) ==
    /\ pc[c] = "awaitData"
    /\ awaited[c].state = "resolved"
    /\ data' = [data EXCEPT ![c] =
                   Array(RecordsSoFar(<<"A", "B", "C">>) \o awaited[c].value.items)]
    /\ pc' = [pc EXCEPT ![c] = "returned"]
    /\ parsePromise' = [parsePromise EXCEPT ![c] = IF @ = "pending" THEN "resolved" ELSE @]
    /\ parseReaction' = [parseReaction EXCEPT ![c] = (parsePromise[c] = "pending")]
    /\ UNCHANGED <<doneCallback, fileHandle, finishCallback, awaited, catchPending,
                   fileStr, header, definitions, trace, delivered>>

\* parser.js:221-222: resolve(data) settles parsePromise only if it is still pending
ResumeData(c) ==
    /\ pc[c] = "awaitData"
    /\ awaited[c].state = "resolved"
    /\ data' = [data EXCEPT ![c] = awaited[c].value]
    /\ pc' = [pc EXCEPT ![c] = "returned"]
    /\ parsePromise' = [parsePromise EXCEPT ![c] = IF @ = "pending" THEN "resolved" ELSE @]
    /\ parseReaction' = [parseReaction EXCEPT ![c] = (parsePromise[c] = "pending")]
    /\ UNCHANGED <<doneCallback, fileHandle, finishCallback, awaited, catchPending,
                   fileStr, header, definitions, trace, delivered>>

\* parser.js:226-228: finishCallback(null, data)
OnParseResolved(c) ==
    /\ parsePromise[c] = "resolved"
    /\ parseReaction[c]
    /\ delivered' = [delivered EXCEPT ![finishCallback[c]] = Append(@, ResultCall(c, data[c]))]
    /\ parseReaction' = [parseReaction EXCEPT ![c] = FALSE]
    /\ UNCHANGED <<doneCallback, pc, fileHandle, finishCallback, parsePromise, awaited,
                   catchPending, fileStr, header, definitions, data, trace>>

\* parser.js:230-235: emit is called with the error object as the event name,
\* and no listener is registered under that name
OnParseRejected(c) ==
    /\ parsePromise[c] = "rejected"
    /\ parseReaction[c]
    /\ delivered' = Emit("[object Object]", c, "main thread parsing logic",
                         "File handle entered to module is not valid",
                         doneCallback, delivered)
    /\ parseReaction' = [parseReaction EXCEPT ![c] = FALSE]
    /\ UNCHANGED <<doneCallback, pc, fileHandle, finishCallback, parsePromise, awaited,
                   catchPending, fileStr, header, definitions, data, trace>>

Step(c, paths, texts) ==
    \/ \E fh \in paths : Start(c, fh)
    \/ \E fh \in paths : StartWithoutCallback(c, fh)
    \/ ResumeValidate(c)
    \/ \E text \in texts : StreamEnd(c, text)
    \/ StreamError(c)
    \/ StreamCatch(c)
    \/ HeaderCatch(c)
    \/ DefinitionsCatch(c)
    \/ DataCatch(c)
    \/ ExecutorThrows(c)
    \/ ResumeRead(c)
    \/ ResumeHeader(c)
    \/ ResumeDefinitions(c)
    \/ ResumeData(c)
    \/ OnParseResolved(c)
    \/ OnParseRejected(c)

\* two calls, each made once, in every interleaving the event loop allows
Next == \E c \in Calls : Step(c, Paths, FewTexts)

Spec == Init /\ [][Next]_vars

\* one call alone, over every text
NextOne == \E c \in OneCall : Step(c, Paths, AllTexts)

SpecOne == Init /\ [][NextOne]_vars

\* three calls made one after the other: a call is made when the calls before
\* it have nothing left to run
Earlier(c) == IF c = "A" THEN {} ELSE IF c = "B" THEN {"A"} ELSE {"A", "B"}

InTurn(c) == \A d \in Earlier(c) : Finished(d)

NextSeq == \E c \in CallIds : InTurn(c) /\ Step(c, Paths, FewTexts)

SpecSeq == Init /\ [][NextSeq]_vars

\* path validation alone, over every short path
MaxPathLen == 5

PathChars == {".", "a", "b", "l", "m", "B"}

AllPaths == SeqsUpTo(PathChars, MaxPathLen) \cup NonStrings

NextValidate == \E c \in OneCall : \E fh \in AllPaths : Start(c, fh)

SpecValidate == Init /\ [][NextValidate]_vars

-----------------------------------------------------------------------------
(* Observations on a call *)

Errors(c) == SelectSeq(delivered[c], LAMBDA e : e.kind = "error")

Results(c) == SelectSeq(delivered[c], LAMBDA e : e.kind = "result")

Ran(c, step) == \E i \in DOMAIN trace[c] : trace[c][i] = step

WithCallback(c) == finishCallback[c] = c

\* the stream of call c ended and the executor took the text
Loaded(c) == Ran(c, "getHeader")

PathIsValid(c) == validateFileHandle(fileHandle[c]).value

-----------------------------------------------------------------------------
(* C1: every call made with a function callback ends with exactly one outcome
   delivered to that callback, whatever the path and whatever the loader does.
   Stated on the finished call: the callback was invoked exactly once. *)
C1_ExactlyOneOutcome ==
    \A c \in Calls : Finished(c) /\ WithCallback(c) => Len(delivered[c]) = 1

(* C2: when path validation returns false, the invalid-path error is delivered
   to the caller and nothing else runs: the loader is never invoked and no
   header, definition or data extraction is run. *)
C2_InvalidPathShortCircuits ==
    \A c \in Calls :
        WithCallback(c) /\ pc[c] # "awaitValidate" /\ ~PathIsValid(c) =>
            /\ ~Ran(c, "streamInData")
            /\ ~Ran(c, "getHeader")
            /\ ~Ran(c, "getDefinitions")
            /\ ~Ran(c, "getData")
            /\ Finished(c) =>
                   delivered[c] = <<ErrorCall(c, "main thread parsing logic",
                                              "File handle entered to module is not valid")>>

(* C3: concurrent calls are independent: whatever a call raises, error or
   result, reaches that call's own callback and never the other call's, so
   each callback receives what its call would deliver alone. *)
C3_NoCrossDelivery ==
    \A cb \in Calls : \A i \in DOMAIN delivered[cb] : delivered[cb][i].from = cb

(* C4: with one call in flight, the callback is never invoked with both a
   result and an error, and never with more than one error, whichever stage
   fails and also when a stage rejects and keeps executing. *)
C4_NeverBothNeverTwoErrors ==
    \A c \in Calls :
        /\ Len(Errors(c)) <= 1
        /\ ~(Len(Errors(c)) >= 1 /\ Len(Results(c)) >= 1)

\* getData rejected for two records and still went on to resolve; one error arrived
C4_Witness ==
    /\ Finished("A")
    /\ Ran("A", "getData")
    /\ Len(DataSignals(fileStr["A"], header["A"], definitions["A"])) >= 3
    /\ Len(Errors("A")) = 1
    /\ Len(delivered["A"]) = 1

-----------------------------------------------------------------------------
HeaderOmitsDelimiter(c) ==
    /\ Ran(c, "getDefinitions")
    /\ \/ Get(header[c], KeyEOF) = Undefined
       \/ Get(header[c], KeyEOR) = Undefined

(* C5: when the header omits the EOF key or the EOR key, the parse fails with
   the missing-delimiter error before definition and data extraction are
   attempted: neither the DEFINITION nor the DATA section is located or split,
   and no result is delivered. *)
C5_DelimiterCheckedBeforeExtraction ==
    \A c \in Calls :
        HeaderOmitsDelimiter(c) =>
            /\ ~Ran(c, "locate DEFINITION")
            /\ ~Ran(c, "split DEFINITION")
            /\ ~Ran(c, "locate DATA")
            /\ ~Ran(c, "split DATA")
            /\ Results(c) = <<>>
            /\ Finished(c) =>
                   /\ Len(delivered[c]) = 1
                   /\ delivered[c][1].cause = "Header data incorrect"

-----------------------------------------------------------------------------
Sections == {"HEADER", "DEFINITION", "DATA"}

SectionOf(s, text) ==
    IF s = "HEADER" THEN HeaderSection(text)
    ELSE IF s = "DEFINITION" THEN DefinitionSection(text)
    ELSE DataSection(text)

StageOf(s) ==
    IF s = "HEADER" THEN "parse header section"
    ELSE IF s = "DEFINITION" THEN "parse definition section"
    ELSE "parse data section"

\* the first stage that cannot succeed on a text
FirstFailingStage(text) ==
    IF HeaderSection(text) = NoMatch THEN StageOf("HEADER")
    ELSE IF DefinitionSection(text) = NoMatch \/ HeaderIncorrect(getHeader(text).value)
    THEN StageOf("DEFINITION")
    ELSE StageOf("DATA")

\* the first section, in pipeline order, whose marker pair a text lacks
FirstMissingSection(text) ==
    IF HeaderSection(text) = NoMatch THEN "HEADER"
    ELSE IF DefinitionSection(text) = NoMatch THEN "DEFINITION"
    ELSE "DATA"

(* C6 as stated: for every loaded text that lacks the marker pair of a section,
   the parse delivers no result and fails with an error naming that section's
   stage (the first such section, when several are missing). *)
C6_ErrorNamesTheMissingSection ==
    \A c \in Calls :
        /\ Finished(c)
        /\ Loaded(c)
        /\ \E s \in Sections : SectionOf(s, fileStr[c]) = NoMatch
        => /\ Results(c) = <<>>
           /\ Len(delivered[c]) = 1
           /\ delivered[c][1].stage = StageOf(FirstMissingSection(fileStr[c]))

(* C6 as amended: for every loaded text that lacks the marker pair of a section,
   the parse delivers no result and fails with exactly one error, which names
   the first stage that fails: the HEADER stage when the HEADER pair is
   missing, otherwise the DEFINITION stage when the DEFINITION pair is missing
   or the header omits a delimiter, otherwise the DATA stage. *)
C6_ErrorNamesTheFirstFailingStage ==
    \A c \in Calls :
        Loaded(c) /\ (\E s \in Sections : SectionOf(s, fileStr[c]) = NoMatch) =>
            /\ Results(c) = <<>>
            /\ Finished(c) =>
                   /\ Len(delivered[c]) = 1
                   /\ delivered[c][1].kind = "error"
                   /\ delivered[c][1].stage = FirstFailingStage(fileStr[c])

\* a text with HEADER and DEFINITION but no closed DATA section failed in the data stage
C6_Witness ==
    /\ Finished("A")
    /\ Loaded("A")
    /\ HeaderSection(fileStr["A"]) # NoMatch
    /\ DefinitionSection(fileStr["A"]) # NoMatch
    /\ DataSection(fileStr["A"]) = NoMatch
    /\ Len(delivered["A"]) = 1
    /\ delivered["A"][1].stage = StageOf("DATA")

-----------------------------------------------------------------------------
\* the data stage ran on a located DATA section with usable header and definitions
DataExtracted(c) ==
    /\ Ran(c, "split DATA")
    /\ ~HeaderIncorrect(header[c])
    /\ definitions[c] # JsUndefined

Candidates(c) == ValidData(DataSection(fileStr[c]), header[c])

\* the value count of a record candidate: its field-separator split less the last element
ValueCount(c, i) == Len(DataArr(Candidates(c)[i], header[c]))

SomeRecordMismatches(c) ==
    \E i \in 1..Len(Candidates(c)) : ValueCount(c, i) # Len(definitions[c].items)

(* C7: if any record candidate of the DATA section, at any index, has a value
   count different from the number of field definitions, the whole parse fails
   with the schema-mismatch error and no record list is delivered. *)
C7_MismatchFailsWholeParse ==
    \A c \in Calls :
        DataExtracted(c) /\ SomeRecordMismatches(c) =>
            /\ Results(c) = <<>>
            /\ Finished(c) =>
                   delivered[c] = <<ErrorCall(c, "parse data section",
                                      "Data array has different length than field array")>>

\* the first record fits, the second does not, and the parse ended with the one error
C7_Witness ==
    /\ Finished("A")
    /\ DataExtracted("A")
    /\ Len(Candidates("A")) = 2
    /\ ValueCount("A", 1) = Len(definitions["A"].items)
    /\ ValueCount("A", 2) # Len(definitions["A"].items)
    /\ Len(Errors("A")) = 1
    /\ Results("A") = <<>>

(* C8: on every successful parse the number of delivered records equals the
   number of record candidates that are non-empty after trimming, and every
   delivered record has exactly as many keys as there are field definitions,
   repeated or empty field names included. *)
C8_RecordAndKeyCounts ==
    \A c \in Calls : \A i \in DOMAIN Results(c) :
        LET records == Results(c)[i].data.items
        IN  /\ Len(records) = Len(Candidates(c))
            /\ \A k \in DOMAIN records :
                   Cardinality(DOMAIN records[k]) = Len(definitions[c].items)

-----------------------------------------------------------------------------
\* the text before the last '.', and the segment after it
LastDot(p) == Maximum({i \in 1..Len(p) : p[i] = "."})

ClaimedValid(p) ==
    /\ IsString(p)
    /\ Len(p) > 0
    /\ \E i \in 1..Len(p) : p[i] = "."
    /\ LastDot(p) > 1
    /\ ToUpperCase(SubSeq(p, LastDot(p) + 1, Len(p))) = BLM

(* C9: path validation answers true exactly when the path is a non-empty
   string whose text before the last '.' is non-empty and whose final segment
   is "BLM" in any letter case; it answers false, never an error, otherwise. *)
C9_ValidExactlyWhenPrefixAndBlm ==
    \A c \in Calls :
        pc[c] = "awaitValidate" =>
            /\ awaited[c].state = "resolved"
            /\ awaited[c].value = ClaimedValid(fileHandle[c])

-----------------------------------------------------------------------------
FieldName == <<"n", "a", "m", "e">>

FieldAddress == <<"a", "d", "d", "r", "e", "s", "s">>

FieldPrice == <<"p", "r", "i", "c", "e">>

FieldPriceWithEOR == <<"p", "r", "i", "c", "e", ";">>

ValueAlice == <<"A", "l", "i", "c", "e">>

Value123Rd == <<"1", "2", "3", " ", "R", "d">>

Value100000 == <<"1", "0", "0", "0", "0", "0">>

ExampleRecord(priceKey) ==
    Put(Put(Put(EmptyProps, FieldName, ValueAlice), FieldAddress, Value123Rd),
        priceKey, Value100000)

ExampleParsed(c) ==
    /\ Finished(c)
    /\ WithCallback(c)
    /\ PathIsValid(c)
    /\ fileStr[c] = ExampleText

(* C10 as stated: with EOF '|' and EOR ';', definitions 'name|address|price;'
   and data 'Alice|123 Rd|100000|;', the parse succeeds with exactly one record
   {name: "Alice", address: "123 Rd", price: "100000"}. *)
C10_ExampleKeysNameAddressPrice ==
    \A c \in Calls :
        ExampleParsed(c) =>
            delivered[c] = <<ResultCall(c, Array(<<ExampleRecord(FieldPrice)>>))>>

(* C10 as amended: on that input the parse succeeds with exactly one record,
   whose keys are name, address and "price;" (the record separator written
   directly after the last field name stays part of that name), with the
   values "Alice", "123 Rd" and "100000". *)
C10_ExampleKeysNameAddressPriceEOR ==
    \A c \in Calls :
        ExampleParsed(c) =>
            delivered[c] = <<ResultCall(c, Array(<<ExampleRecord(FieldPriceWithEOR)>>))>>

C10_Witness == ExampleParsed("A") /\ Len(Results("A")) = 1

-----------------------------------------------------------------------------
\* the lines of the HEADER section of a text that are not blank
HeaderLines(text) ==
    SelectSeq(Split(HeaderSection(text), Newline), LAMBDA line : Trim(line) # <<>>)

HasLineWithoutColon(text) ==
    /\ HeaderSection(text) # NoMatch
    /\ \E i \in DOMAIN HeaderLines(text) : IndexOf(HeaderLines(text)[i], Colon, 1) = 0

(* C11: a non-blank header line that contains no ':' makes header extraction
   fail with the malformed-header-line error: the line is never accepted as a
   property with an undefined value, no later stage runs and the parse
   delivers no result. *)
C11_LineWithoutColonFails ==
    \A c \in Calls :
        Loaded(c) /\ HasLineWithoutColon(fileStr[c]) =>
            /\ ~Ran(c, "getDefinitions")
            /\ Results(c) = <<>>
            /\ Finished(c) =>
                   /\ Len(delivered[c]) = 1
                   /\ delivered[c][1].stage = StageOf("HEADER")

-----------------------------------------------------------------------------
\* the stream of call c failed: its promise was rejected and no text was taken
ReadFailed(c) ==
    /\ Ran(c, "streamInData")
    /\ ~Loaded(c)
    /\ awaited[c].state = "rejected"

(* C12: for a valid path whose read fails in the loader, the callback receives
   exactly one error, which names the file-read stage, and no result. *)
C12_ReadFailureDeliversOneReadError ==
    \A c \in Calls :
        WithCallback(c) /\ PathIsValid(c) /\ ReadFailed(c) =>
            /\ Results(c) = <<>>
            /\ Len(Errors(c)) <= 1
            /\ Finished(c) => delivered[c] = <<ErrorCall(c, "read file stream", "")>>

C12_Witness ==
    /\ Finished("A")
    /\ PathIsValid("A")
    /\ ReadFailed("A")
    /\ delivered["A"] = <<ErrorCall("A", "read file stream", "")>>

-----------------------------------------------------------------------------
\* what the stages compute from a text alone
ParseOf(text) ==
    LET h == getHeader(text)
        d == IF h.state = "resolved" THEN getDefinitions(text, h.value) ELSE h
    IN  IF d.state = "resolved" THEN getData(text, h.value, d.value) ELSE d

WellFormed(text) == ParseOf(text).state = "resolved"

\* call c was a complete parse of a well-formed text under a valid path
ParsedWellFormed(c) ==
    /\ Finished(c)
    /\ WithCallback(c)
    /\ PathIsValid(c)
    /\ Loaded(c)
    /\ WellFormed(fileStr[c])

\* what callback c received, without the call that raised it
Outcomes(c) == [i \in DOMAIN delivered[c] |-> [kind |-> delivered[c][i].kind,
                                                 data |-> delivered[c][i].data]]

(* C13: parsing keeps no state across calls: two successive parses of the same
   well-formed text deliver equal record sequences, whatever calls, successful
   or failed, were made before or between them. *)
C13_SameTextSameRecords ==
    \A c, d \in CallIds :
        ParsedWellFormed(c) /\ ParsedWellFormed(d) /\ fileStr[c] = fileStr[d] =>
            /\ Len(Results(c)) = 1
            /\ Outcomes(c) = Outcomes(d)

\* the first and the third call parsed the same text, the second one failed in between
C13_Witness ==
    /\ ParsedWellFormed("A")
    /\ ParsedWellFormed("C")
    /\ fileStr["A"] = fileStr["C"]
    /\ Finished("B")
    /\ Len(Errors("B")) = 1
    /\ Len(Results("A")) = 1
    /\ Len(Results("A")[1].data.items) = 1
    /\ Outcomes("A") = Outcomes("C")

-----------------------------------------------------------------------------
StageOrder == <<"streamInData", "getHeader", "getDefinitions", "getData">>

\* the stages call c has entered, in the order it entered them
StagesRun(c) == SelectSeq(trace[c], LAMBDA step : \E i \in DOMAIN StageOrder : StageOrder[i] = step)

\* the stage whose catch handler reports under the given name
StageReporting(name) ==
    IF name = "read file stream" THEN 1
    ELSE IF name = "parse header section" THEN 2
    ELSE IF name = "parse definition section" THEN 3
    ELSE IF name = "parse data section" THEN 4
    ELSE 0

(* C14: the stages run strictly in the order load, header, definition, data;
   each starts only after the one before it has produced its output, and no
   later stage runs once load, header or definition extraction has failed. *)
C14_StagesInOrder ==
    \A c \in Calls :
        /\ StagesRun(c) = SubSeq(StageOrder, 1, Len(StagesRun(c)))
        /\ Ran(c, "getHeader") => IsString(fileStr[c])
        /\ Ran(c, "getDefinitions") =>
               /\ getHeader(fileStr[c]).state = "resolved"
               /\ header[c] = getHeader(fileStr[c]).value
        /\ Ran(c, "getData") =>
               /\ getDefinitions(fileStr[c], header[c]).state = "resolved"
               /\ definitions[c] = getDefinitions(fileStr[c], header[c]).value
        /\ \A i \in DOMAIN delivered[c] :
               /\ delivered[c][i].kind = "error"
               /\ StageReporting(delivered[c][i].stage) \in 1..3
               => Len(StagesRun(c)) = StageReporting(delivered[c][i].stage)

\* header extraction failed after a successful load and the call came to rest
C14_Witness ==
    /\ Finished("A")
    /\ StagesRun("A") = <<"streamInData", "getHeader">>
    /\ Len(Errors("A")) = 1
    /\ Errors("A")[1].stage = "parse header section"

-----------------------------------------------------------------------------
\* the element that slice(0, -1) removes from the field-separator split of candidate i
RemovedElement(c, i) ==
    LET parts == Split(Candidates(c)[i], Get(header[c], KeyEOF))
    IN  parts[Len(parts)]

(* C15: no value of a data record is silently dropped: whenever records are
   delivered, the element removed from the end of every record candidate's
   field-separator split is the empty string that follows a trailing separator
   (a candidate that does not end with the field separator is rejected). *)
C15_RemovedElementIsEmpty ==
    \A c \in Calls :
        DataExtracted(c) /\ Results(c) # <<>> =>
            \A i \in 1..Len(Candidates(c)) : RemovedElement(c, i) = <<>>

-----------------------------------------------------------------------------
\* the i-th value written in record candidate k
ValueAt(c, k, i) == Split(Candidates(c)[k], Get(header[c], KeyEOF))[i]

(* C16: on a successful parse the k-th delivered record belongs to the k-th
   non-empty record candidate in file order, and in each record the i-th field
   name of the definition list maps to the i-th value of that candidate, kept
   as the raw string. *)
C16_RecordsZipNamesWithValues ==
    \A c \in Calls : \A r \in DOMAIN Results(c) :
        LET records == Results(c)[r].data.items
            names == definitions[c].items
        IN  /\ Len(records) = Len(Candidates(c))
            /\ \A k \in DOMAIN records : \A i \in DOMAIN names :
                   /\ names[i] \in DOMAIN records[k]
                   /\ records[k][names[i]] = ValueAt(c, k, i)

\* the same, for definition lists that name every field differently
C16_ZipWithDistinctNames ==
    \A c \in Calls : \A r \in DOMAIN Results(c) :
        LET records == Results(c)[r].data.items
            names == definitions[c].items
        IN  (\A i, j \in DOMAIN names : names[i] = names[j] => i = j) =>
                /\ Len(records) = Len(Candidates(c))
                /\ \A k \in DOMAIN records : \A i \in DOMAIN names :
                       /\ names[i] \in DOMAIN records[k]
                       /\ records[k][names[i]] = ValueAt(c, k, i)

-----------------------------------------------------------------------------
\* a header line split once, on its first ':'
PropertyOfLine(line) ==
    StripQuotes(Trim(SubSeq(Trim(line), 1, IndexOf(Trim(line), Colon, 1) - 1)))

ValueOfLine(line) ==
    StripQuotes(Trim(SubSeq(Trim(line), IndexOf(Trim(line), Colon, 1) + 1, Len(Trim(line)))))

(* C17: header extraction splits each non-blank line once, on its first ':',
   so the mapping holds, under the trimmed property name, the whole text after
   that ':' (less surrounding whitespace and one quote at each end), further
   ':' characters included. *)
C17_ValueAfterFirstColonKeptWhole ==
    \A c \in Calls :
        header[c] # JsUndefined =>
            LET lines == HeaderLines(fileStr[c])
            IN  \A i \in DOMAIN lines :
                    /\ IndexOf(lines[i], Colon, 1) > 0
                    /\ \A j \in DOMAIN lines :
                           j > i /\ IndexOf(lines[j], Colon, 1) > 0
                           => PropertyOfLine(lines[j]) # PropertyOfLine(lines[i])
                    => Get(header[c], PropertyOfLine(lines[i])) = ValueOfLine(lines[i])

-----------------------------------------------------------------------------
\* the DEFINITION section of call c split on the field separator
SectionSplit(c) == Split(DefinitionSection(fileStr[c]), Get(header[c], KeyEOF))

(* C18: definition extraction returns the DEFINITION section split on the
   field separator, every name trimmed, in section order; the final element is
   removed exactly when it equals the record-separator value, and a final
   element that merely ends with the record separator is left as it is. *)
C18_DefinitionsSplitTrimmedInOrder ==
    \A c \in Calls :
        definitions[c] # JsUndefined =>
            LET parts == SectionSplit(c)
                names == definitions[c].items
                last == Trim(parts[Len(parts)])
            IN  /\ Len(names) = IF last = Get(header[c], KeyEOR)
                                THEN Len(parts) - 1 ELSE Len(parts)
                /\ \A i \in DOMAIN names : names[i] = Trim(parts[i])

\* the last field name is directly followed by the record separator and is kept as written
C18_Witness ==
    /\ definitions["A"] # JsUndefined
    /\ definitions["A"].items = <<<<"a">>, <<"b", ";">>>>
    /\ Get(header["A"], KeyEOR) = <<";">>
    /\ Len(SectionSplit("A")) = 2

-----------------------------------------------------------------------------
\* call c was made without a function as second argument
FailedAtEntry(c) == pc[c] = "threw"

\* no stage of call c has started and nothing of it is left to run
NothingStarted(c) ==
    /\ trace[c] = <<>>
    /\ parsePromise[c] = "none"
    /\ awaited[c] = Pending
    /\ ~MicrotaskPending(c)
    /\ \A d \in Calls : \A i \in DOMAIN delivered[d] : delivered[d][i].from # c

(* C19: a call whose second argument is missing or not a function fails before
   any stage starts: path validation and the file read never run for it, and
   the step that makes the call leaves the module-level callback slot as it
   was and invokes no callback. *)
C19_NoCallbackFailsBeforeAnyStage ==
    /\ [](\A c \in Calls : FailedAtEntry(c) => NothingStarted(c))
    /\ [][\A c \in Calls :
              ~FailedAtEntry(c) /\ FailedAtEntry(c)' =>
                  /\ doneCallback' = doneCallback
                  /\ delivered' = delivered]_vars

\* the second call failed at entry while the first is reading, and the slot still holds
\* the first call's callback
C19_Witness ==
    /\ FailedAtEntry("B")
    /\ NothingStarted("B")
    /\ pc["A"] = "awaitRead"
    /\ doneCallback = "A"

====
